---------------------------- MODULE Spec2Model ----------------------------
(***************************************************************************)
(* Model of mandelbrot(size, iterations, col), the C routine of            *)
(* notebooks/chapter05_hpc/03_ctypes.ipynb (mandelbrot.c, lines 60-100),   *)
(* and of the host cells that allocate the buffer and call it.             *)
(*                                                                         *)
(* The C doubles are modelled as binary fixed-point numbers with Scale     *)
(* units per 1.0; every product and quotient is rounded to the nearest     *)
(* unit.  For every grid of edge 1..5 and every budget of 1..11 steps the  *)
(* buffers this arithmetic yields are those of the IEEE doubles.           *)
(***************************************************************************)
EXTENDS Integers, Sequences, FiniteSets

\* ------------------------------------------------------------- bounds
MaxSize == 3
MaxIter == 5
MaxCalls == 2
ParMaxSize == 3
ParMaxIter == 4
MaxWorkers == 2

\* ------------------------------------------------------------- numbers
Scale == 256

Round(p) == (p + Scale \div 2) \div Scale

Mul(a, b) == Round(a * b)

\* (double)k / size, rounded to the nearest unit
Ratio(k, size) == (2 * k * Scale + size) \div (2 * size)

\* the escape bound of the test  z0_2 + z1_2 <= 100
Threshold == 100 * Scale

\* ------------------------------------------------------------- the loop body
\* cy = -1.5 + (double)i / size * 3
CoordY(i, size) == (0 - (3 * Scale) \div 2) + Ratio(i, size) * 3

\* cx = -2.0 + (double)j / size * 3
CoordX(j, size) == (0 - 2 * Scale) + Ratio(j, size) * 3

IndexOf_colmajor(i, j, size) == j * size + i

IndexOf_sum(i, j, size) == i + j

\* index = i * size + j
IndexOf(i, j, size) == i * size + j

\* i < size  (and j < size)
RowCond(i, size) == i < size

IterCond_le(n, iterations) == n <= iterations

\* n < iterations
IterCond(n, iterations) == n < iterations

NotEscaped_inverted(a, b) == Mul(a, a) + Mul(b, b) > Threshold

NotEscaped_radius2(a, b) == Mul(a, a) + Mul(b, b) <= 4 * Scale

\* z0_2 = z0 * z0; z1_2 = z1 * z1; if (z0_2 + z1_2 <= 100)
NotEscaped(a, b) == Mul(a, a) + Mul(b, b) <= Threshold

\* z0_tmp = z0_2 - z1_2 + cx
NextZ0(a, b, x) == Mul(a, a) - Mul(b, b) + x

\* z1 = 2 * z0 * z1 + cy
NextZ1(a, b, y) == Round(2 * a * b) + y

StoredAt_next(n) == n + 1

\* col[index] = n
StoredAt(n) == n

\* ------------------------------------------------------------- inputs
Sizes == {0 - 5} \cup (0 .. MaxSize)

Iters == (0 - 1) .. MaxIter

\* the caller's buffer: at least size*size cells for every size tried
BufEdge == IF ParMaxSize > MaxSize THEN ParMaxSize ELSE MaxSize

BufLen == BufEdge * BufEdge

Cells == 0 .. (BufLen - 1)

\* np.empty leaves arbitrary values in the buffer
Garbage == {0 - 3, 0, 9}

EmptyBufs == { [k \in Cells |-> IF k % 2 = 0 THEN g ELSE h] : g \in Garbage, h \in Garbage }

Workers == 1 .. MaxWorkers

IdleWorker == [pc |-> "wait", i |-> 0, j |-> 0, n |-> 0, index |-> 0,
               cx |-> 0, cy |-> 0, z0 |-> 0, z1 |-> 0]

VARIABLES size, iterations, col, pc, i, j, n, index, cx, cy, z0, z1,
          outcome, col0, stores, calls, prevcol, prevcol0,
          nworkers, pcol, wk, writers

seqvars == <<size, iterations, col, pc, i, j, n, index, cx, cy, z0, z1,
             outcome, col0, stores, calls, prevcol, prevcol0>>

parvars == <<nworkers, pcol, wk, writers>>

vars == <<size, iterations, col, pc, i, j, n, index, cx, cy, z0, z1,
          outcome, col0, stores, calls, prevcol, nworkers, pcol, wk, writers>>

\* the state at the entry of mandelbrot for arguments (s, it, buf)
Entry(s, it, buf) ==
    /\ size = s
    /\ iterations = it
    /\ col = buf
    /\ col0 = buf
    /\ pc = "outer"
    /\ i = 0 /\ j = 0 /\ n = 0 /\ index = 0
    /\ cx = 0 /\ cy = 0 /\ z0 = 0 /\ z1 = 0
    /\ outcome = "running"
    /\ stores = << >>
    /\ calls = 1
    /\ prevcol = buf
    /\ prevcol0 = buf

ParIdle ==
    /\ nworkers = 1
    /\ pcol = col
    /\ wk = [w \in Workers |-> IdleWorker]
    /\ writers = [k \in Cells |-> {}]

Init ==
    /\ \E s \in Sizes, it \in Iters, buf \in EmptyBufs : Entry(s, it, buf)
    /\ ParIdle

\* ------------------------------------------------------------- mandelbrot
\* for (i = 0; i < size; i++) { cy = ...; j = 0
OuterEnter ==
    /\ pc = "outer"
    /\ RowCond(i, size)
    /\ cy' = CoordY(i, size)
    /\ j' = 0
    /\ pc' = "inner"
    /\ UNCHANGED <<size, iterations, col, i, n, index, cx, z0, z1,
                   outcome, col0, stores, calls, prevcol, prevcol0, parvars>>

\* i < size is false: the function returns
OuterExit ==
    /\ pc = "outer"
    /\ ~RowCond(i, size)
    /\ pc' = "done"
    /\ outcome' = "returned"
    /\ UNCHANGED <<size, iterations, col, i, j, n, index, cx, cy, z0, z1,
                   col0, stores, calls, prevcol, prevcol0, parvars>>

\* for (j = 0; j < size; j++) { cx = ...; index = ...; z0 = z1 = 0.0; n = 0
InnerEnter ==
    /\ pc = "inner"
    /\ RowCond(j, size)
    /\ cx' = CoordX(j, size)
    /\ index' = IndexOf(i, j, size)
    /\ z0' = 0
    /\ z1' = 0
    /\ n' = 0
    /\ pc' = "iter"
    /\ UNCHANGED <<size, iterations, col, i, j, cy,
                   outcome, col0, stores, calls, prevcol, prevcol0, parvars>>

\* j < size is false: i++
InnerExit ==
    /\ pc = "inner"
    /\ ~RowCond(j, size)
    /\ i' = i + 1
    /\ pc' = "outer"
    /\ UNCHANGED <<size, iterations, col, j, n, index, cx, cy, z0, z1,
                   outcome, col0, stores, calls, prevcol, prevcol0, parvars>>

\* n < iterations and z0_2 + z1_2 <= 100: update the system, store n, n++
IterUpdate ==
    /\ pc = "iter"
    /\ IterCond(n, iterations)
    /\ NotEscaped(z0, z1)
    /\ z0' = NextZ0(z0, z1, cx)
    /\ z1' = NextZ1(z0, z1, cy)
    /\ col' = [col EXCEPT ![index] = StoredAt(n)]
    /\ stores' = Append(stores, <<index, StoredAt(n)>>)
    /\ n' = n + 1
    /\ UNCHANGED <<size, iterations, pc, i, j, index, cx, cy,
                   outcome, col0, calls, prevcol, prevcol0, parvars>>

\* n < iterations and z0_2 + z1_2 > 100: break, j++
IterBreak ==
    /\ pc = "iter"
    /\ IterCond(n, iterations)
    /\ ~NotEscaped(z0, z1)
    /\ j' = j + 1
    /\ pc' = "inner"
    /\ UNCHANGED <<size, iterations, col, i, n, index, cx, cy, z0, z1,
                   outcome, col0, stores, calls, prevcol, prevcol0, parvars>>

\* n < iterations is false: j++
IterExit ==
    /\ pc = "iter"
    /\ ~IterCond(n, iterations)
    /\ j' = j + 1
    /\ pc' = "inner"
    /\ UNCHANGED <<size, iterations, col, i, n, index, cx, cy, z0, z1,
                   outcome, col0, stores, calls, prevcol, prevcol0, parvars>>

\* the host calls mandelbrot(size, iterations, col) again: on the array it
\* already passed (%timeit) or on a newly allocated np.empty array
Recall ==
    /\ pc = "done"
    /\ calls < MaxCalls
    /\ \E buf \in {col} \cup EmptyBufs :
          /\ col' = buf
          /\ col0' = buf
    /\ prevcol' = col
    /\ prevcol0' = col0
    /\ calls' = calls + 1
    /\ pc' = "outer"
    /\ i' = 0 /\ j' = 0 /\ n' = 0 /\ index' = 0
    /\ cx' = 0 /\ cy' = 0 /\ z0' = 0 /\ z1' = 0
    /\ outcome' = "running"
    /\ stores' = << >>
    /\ UNCHANGED <<size, iterations, parvars>>

Next ==
    \/ OuterEnter
    \/ OuterExit
    \/ InnerEnter
    \/ InnerExit
    \/ IterUpdate
    \/ IterBreak
    \/ IterExit
    \/ Recall

Spec == Init /\ [][Next]_vars

\* ------------------------------------------------------------- row-partitioned workers
\* worker w of nworkers owns the rows Lo(w) .. Hi(w) - 1
Lo(w) == IF w > nworkers THEN 0 ELSE ((w - 1) * size) \div nworkers

Hi(w) == IF w > nworkers THEN 0 ELSE (w * size) \div nworkers

\* a worker starts once the single-threaded reference run has returned
WStart(w) ==
    /\ pc = "done"
    /\ wk[w].pc = "wait"
    /\ wk' = [wk EXCEPT ![w].pc = "outer", ![w].i = Lo(w)]
    /\ UNCHANGED <<seqvars, nworkers, pcol, writers>>

WOuterEnter(w) ==
    /\ wk[w].pc = "outer"
    /\ RowCond(wk[w].i, Hi(w))
    /\ wk' = [wk EXCEPT ![w].cy = CoordY(wk[w].i, size), ![w].j = 0, ![w].pc = "inner"]
    /\ UNCHANGED <<seqvars, nworkers, pcol, writers>>

WOuterExit(w) ==
    /\ wk[w].pc = "outer"
    /\ ~RowCond(wk[w].i, Hi(w))
    /\ wk' = [wk EXCEPT ![w].pc = "done"]
    /\ UNCHANGED <<seqvars, nworkers, pcol, writers>>

WInnerEnter(w) ==
    /\ wk[w].pc = "inner"
    /\ RowCond(wk[w].j, size)
    /\ wk' = [wk EXCEPT ![w].cx = CoordX(wk[w].j, size),
                        ![w].index = IndexOf(wk[w].i, wk[w].j, size),
                        ![w].z0 = 0, ![w].z1 = 0, ![w].n = 0,
                        ![w].pc = "iter"]
    /\ UNCHANGED <<seqvars, nworkers, pcol, writers>>

WInnerExit(w) ==
    /\ wk[w].pc = "inner"
    /\ ~RowCond(wk[w].j, size)
    /\ wk' = [wk EXCEPT ![w].i = wk[w].i + 1, ![w].pc = "outer"]
    /\ UNCHANGED <<seqvars, nworkers, pcol, writers>>

WIterUpdate(w) ==
    /\ wk[w].pc = "iter"
    /\ IterCond(wk[w].n, iterations)
    /\ NotEscaped(wk[w].z0, wk[w].z1)
    /\ wk' = [wk EXCEPT ![w].z0 = NextZ0(wk[w].z0, wk[w].z1, wk[w].cx),
                        ![w].z1 = NextZ1(wk[w].z0, wk[w].z1, wk[w].cy),
                        ![w].n = wk[w].n + 1]
    /\ pcol' = [pcol EXCEPT ![wk[w].index] = StoredAt(wk[w].n)]
    /\ writers' = [writers EXCEPT ![wk[w].index] = @ \cup {w}]
    /\ UNCHANGED <<seqvars, nworkers>>

WIterBreak(w) ==
    /\ wk[w].pc = "iter"
    /\ IterCond(wk[w].n, iterations)
    /\ ~NotEscaped(wk[w].z0, wk[w].z1)
    /\ wk' = [wk EXCEPT ![w].j = wk[w].j + 1, ![w].pc = "inner"]
    /\ UNCHANGED <<seqvars, nworkers, pcol, writers>>

WIterExit(w) ==
    /\ wk[w].pc = "iter"
    /\ ~IterCond(wk[w].n, iterations)
    /\ wk' = [wk EXCEPT ![w].j = wk[w].j + 1, ![w].pc = "inner"]
    /\ UNCHANGED <<seqvars, nworkers, pcol, writers>>

ParSizes == 1 .. ParMaxSize

ParIters == 1 .. ParMaxIter

ParBufs == { buf \in EmptyBufs : buf[0] = 9 /\ buf[1] = 0 - 3 }

ParInit ==
    /\ \E s \in ParSizes, it \in ParIters, buf \in ParBufs : Entry(s, it, buf)
    /\ nworkers \in Workers
    /\ pcol = col
    /\ wk = [w \in Workers |-> IdleWorker]
    /\ writers = [k \in Cells |-> {}]

WStartAny == \E w \in Workers : WStart(w)

WOuterEnterAny == \E w \in Workers : WOuterEnter(w)

WOuterExitAny == \E w \in Workers : WOuterExit(w)

WInnerEnterAny == \E w \in Workers : WInnerEnter(w)

WInnerExitAny == \E w \in Workers : WInnerExit(w)

WIterUpdateAny == \E w \in Workers : WIterUpdate(w)

WIterBreakAny == \E w \in Workers : WIterBreak(w)

WIterExitAny == \E w \in Workers : WIterExit(w)

ParNext ==
    \/ OuterEnter
    \/ OuterExit
    \/ InnerEnter
    \/ InnerExit
    \/ IterUpdate
    \/ IterBreak
    \/ IterExit
    \/ WStartAny
    \/ WOuterEnterAny
    \/ WOuterExitAny
    \/ WInnerEnterAny
    \/ WInnerExitAny
    \/ WIterUpdateAny
    \/ WIterBreakAny
    \/ WIterExitAny

ParSpec == ParInit /\ [][ParNext]_vars

AllWorkersDone == \A w \in Workers : wk[w].pc = "done"

\* ------------------------------------------------------------- properties
WellFormed == size > 0 /\ iterations > 0

Returned == pc = "done" /\ outcome = "returned"

\* the indices of the size x size grid
Grid == IF size > 0 THEN 0 .. (size * size - 1) ELSE {}

\* the number of stores into col[k] made so far by the current call
StoreCount(k) == Cardinality({p \in 1 .. Len(stores) : stores[p][1] = k})

\* the orbit of the point (x, y) after k steps of z <- z*z + (x, y) from
\* (0, 0), held at the first point whose squared magnitude exceeds 100
RECURSIVE OrbitZ(_, _, _)
OrbitZ(x, y, k) ==
    IF k = 0 THEN <<0, 0>>
    ELSE LET p == OrbitZ(x, y, k - 1)
         IN  IF Round(p[1] * p[1]) + Round(p[2] * p[2]) > 100 * Scale
             THEN p
             ELSE <<Round(p[1] * p[1]) - Round(p[2] * p[2]) + x,
                    Round(2 * p[1] * p[2]) + y>>

EscapedAt(x, y, k) ==
    LET p == OrbitZ(x, y, k)
    IN  Round(p[1] * p[1]) + Round(p[2] * p[2]) > 100 * Scale

EscapeSteps(x, y) == {k \in 0 .. (iterations - 1) : EscapedAt(x, y, k)}

Least(S) == CHOOSE k \in S : \A m \in S : k <= m

\* the last completed pre-escape step index of cell (r, c)
LastStep(r, c) ==
    LET x == (0 - 2 * Scale) + Ratio(c, size) * 3
        y == (0 - (3 * Scale) \div 2) + Ratio(r, size) * 3
    IN  IF EscapeSteps(x, y) = {} THEN iterations - 1
        ELSE Least(EscapeSteps(x, y)) - 1

\* the algorithm with a local result, initialised to 0 and written once
RECURSIVE LocalResult(_, _, _, _, _, _)
LocalResult(x, y, a, b, k, result) ==
    IF k >= iterations THEN result
    ELSE IF Round(a * a) + Round(b * b) > 100 * Scale THEN result
    ELSE LocalResult(x, y, Round(a * a) - Round(b * b) + x,
                     Round(2 * a * b) + y, k + 1, k)

\* C1: for size > 0 and iterations > 0 every value stored during the call
\* lies in [0, iterations), and after the return every element col[k],
\* 0 <= k < size*size, lies in [0, iterations).
C1_ValuesInRange ==
    WellFormed =>
        /\ \A p \in 1 .. Len(stores) : stores[p][2] \in 0 .. (iterations - 1)
        /\ Returned => \A k \in Grid : col[k] \in 0 .. (iterations - 1)

C1_Witness ==
    /\ Returned /\ size >= 2 /\ iterations >= 4
    /\ col0[0] = 9 /\ col0[1] = 0 - 3
    /\ \E k \in Grid : col[k] = iterations - 1
    /\ \E k \in Grid : col[k] < iterations - 1

\* C2 (as stated): after a call with size > 0 and iterations > 0 the number
\* of stores into col[k] is exactly 1 for every k in [0, size*size).
C2_WrittenExactlyOnce ==
    (Returned /\ WellFormed) => \A k \in Grid : StoreCount(k) = 1

\* C2 (amended): after a call with size > 0 and iterations > 0 every index
\* k in [0, size*size) has been stored to once per non-escaping step of its
\* cell, that is col[k] + 1 times (at least once, at most iterations
\* times), and no index outside the grid has been stored to.
C2_WrittenOncePerStep ==
    (Returned /\ WellFormed) =>
        \A k \in Cells :
            IF k \in Grid
            THEN /\ StoreCount(k) = col[k] + 1
                 /\ StoreCount(k) >= 1
                 /\ StoreCount(k) <= iterations
            ELSE StoreCount(k) = 0

C2_Witness ==
    /\ Returned /\ size >= 2 /\ iterations >= 4
    /\ \E k \in Grid : StoreCount(k) = iterations
    /\ \E k \in Grid : StoreCount(k) > 1 /\ StoreCount(k) < iterations
    /\ Grid # Cells

\* C3: for size > 0 and iterations > 0, when the call has returned every
\* index k in [0, size*size) has received at least one store of this call,
\* so no element merely keeps the value it held before the call.
C3_AllWrittenAtReturn ==
    (outcome = "returned" /\ WellFormed) =>
        \A k \in Grid : \E p \in 1 .. Len(stores) : stores[p][1] = k

C3_Witness ==
    /\ outcome = "returned" /\ size >= 3 /\ iterations >= 1
    /\ \A k \in Grid : col0[k] # 0

\* C4: a call with size <= 0 or iterations <= 0 ends in the InvalidArgument
\* outcome instead of returning normally.
C4_InvalidArgument ==
    (pc = "done" /\ ~WellFormed) => outcome = "InvalidArgument"

\* C5: during and after a call with size <= 0 or iterations <= 0 nothing is
\* stored: the buffer equals the buffer at the entry of the call.
C5_NoWritesOnInvalid ==
    ~WellFormed => (col = col0 /\ stores = << >>)

C5_Witness ==
    /\ Returned /\ size >= 2 /\ iterations = 0
    /\ i = size /\ col0[0] = 9

\* C6: a second call with the same (size, iterations) leaves the first
\* size*size elements equal to those the first call left, whatever the two
\* buffers held before the calls.
C6_Deterministic ==
    (Returned /\ WellFormed /\ calls >= 2) =>
        \A k \in Grid : col[k] = prevcol[k]

C6_Witness ==
    /\ Returned /\ WellFormed /\ calls >= 2 /\ size >= 2 /\ iterations >= 4
    /\ \A k \in Grid : col0[k] # prevcol0[k]
    /\ \A k \in Grid : col0[k] # prevcol[k]

\* C7: for size > 0 and iterations = 1 every cell is 0 after the call: each
\* cell gets the single store of its non-escaping step n = 0.
C7_OneIterationAllZero ==
    (Returned /\ size > 0 /\ iterations = 1) =>
        /\ \A k \in Grid : col[k] = 0
        /\ Len(stores) = size * size
        /\ \A p \in 1 .. Len(stores) : stores[p][2] = 0

C7_Witness ==
    /\ Returned /\ size >= 3 /\ iterations = 1
    /\ \A k \in Grid : col0[k] # 0

\* C8: workers that own disjoint row ranges never store to the same index,
\* and when all of them have finished, whatever the interleaving and the
\* number of workers, their buffer equals the one the single-threaded call
\* produced for the same (size, iterations).
C8_ParallelSameAsSequential ==
    /\ \A k \in Cells : Cardinality(writers[k]) <= 1
    /\ AllWorkersDone => \A k \in Grid : pcol[k] = col[k]

C8_Witness ==
    /\ AllWorkersDone /\ nworkers >= 2 /\ size >= 3 /\ iterations >= 4
    /\ \E k \in Grid : writers[k] = {1}
    /\ \E k \in Grid : writers[k] = {2}
    /\ \E k \in Grid : pcol[k] < iterations - 1

\* C9: for size > 0 and iterations > 0 the value left in cell (r, c) is the
\* last completed pre-escape step index: k - 1 for the least step k in
\* [0, iterations) whose orbit point has z0*z0 + z1*z1 > 100, and
\* iterations - 1 when there is none; it is also the result of the
\* algorithm that keeps a local result, initially 0, and writes it once.
C9_LastPreEscapeStep ==
    (Returned /\ WellFormed) =>
        \A r \in 0 .. (size - 1), c \in 0 .. (size - 1) :
            /\ col[r * size + c] = LastStep(r, c)
            /\ col[r * size + c] =
                  LocalResult((0 - 2 * Scale) + Ratio(c, size) * 3,
                              (0 - (3 * Scale) \div 2) + Ratio(r, size) * 3,
                              0, 0, 0, 0)

C9_Witness ==
    /\ Returned /\ size >= 2 /\ iterations >= 5
    /\ \E k \in Grid : col[k] = 2
    /\ \E k \in Grid : col[k] = 3
    /\ \E k \in Grid : col[k] = iterations - 1

\* C10: every store of a call targets an index in [0, size*size); the
\* indices stored to never decrease; and the values stored into one cell
\* are 0, 1, 2, ... in this order.
C10_RowMajorStores ==
    \A p \in 1 .. Len(stores) :
        /\ stores[p][1] \in Grid
        /\ p > 1 => stores[p - 1][1] <= stores[p][1]
        /\ IF p > 1 /\ stores[p - 1][1] = stores[p][1]
           THEN stores[p][2] = stores[p - 1][2] + 1
           ELSE stores[p][2] = 0

C10_Witness ==
    /\ Returned /\ size >= 2 /\ iterations >= 3
    /\ Len(stores) >= 2 * size * size
    /\ \E p \in 1 .. Len(stores) : stores[p][2] = 2
    /\ stores[Len(stores)][1] = size * size - 1

====
